---- MODULE Spec2Model ----
(***************************************************************************)
(* Model of travel.py: the order store of a small travel agency kept in    *)
(* st.session_state and persisted, whole collection at a time, to a Feishu *)
(* spreadsheet.                                                            *)
(*                                                                         *)
(* Text is a sequence of one-character strings, so '' is <<>>.  A float is *)
(* modelled by its whole-number value; str(float) appends ".0".  A cell of *)
(* a JSON column is the record [json |-> v] that json.dumps/json.loads     *)
(* carry to and from v.                                                    *)
(***************************************************************************)
EXTENDS Integers, Sequences, FiniteSets, TLC

(***************************************************************************)
(* Bounds of the model.                                                    *)
(***************************************************************************)
MaxOrders == 2      \* create is explored while len(orders) < MaxOrders
MaxId == 3          \* create is explored while order_id_counter <= MaxId
MaxTicks == 1       \* the clock advances at most MaxTicks times
MaxPartners == 2    \* partner lists given to calculate_partner_totals alone

(***************************************************************************)
(* Text helpers.                                                           *)
(***************************************************************************)
Digits == <<"0", "1", "2", "3", "4", "5", "6", "7", "8", "9">>

IsDigit(c) == \E i \in 1..10 : Digits[i] = c

DigitValue(c) == (CHOOSE i \in 1..10 : Digits[i] = c) - 1

RECURSIVE NatToStr(_)
NatToStr(n) ==
    IF n < 10 THEN <<Digits[n + 1]>>
    ELSE NatToStr(n \div 10) \o <<Digits[(n % 10) + 1]>>

\* str(int)
IntToStr(n) == IF n < 0 THEN <<"-">> \o NatToStr(0 - n) ELSE NatToStr(n)

\* str(float) for a float holding a whole number: "1000.0", "-200.0"
FloatToStr(x) == IntToStr(x) \o <<".", "0">>

RECURSIVE DigitsToNat(_)
DigitsToNat(s) ==
    IF s = <<>> THEN 0
    ELSE DigitsToNat(SubSeq(s, 1, Len(s) - 1)) * 10 + DigitValue(s[Len(s)])

AllDigits(s) == \A i \in 1..Len(s) : IsDigit(s[i])

\* position of the first "." in s, or 0
DotPos(s) ==
    IF \E i \in 1..Len(s) : s[i] = "."
    THEN CHOOSE i \in 1..Len(s) : s[i] = "." /\ \A j \in 1..(i - 1) : s[j] # "."
    ELSE 0

\* float(text): [ok |-> FALSE] stands for ValueError; whole is the value
\* truncated toward zero, exact is TRUE when there is no fractional part.
ParseFloat(s) ==
    LET neg  == s # <<>> /\ s[1] = "-"
        body == IF neg THEN SubSeq(s, 2, Len(s)) ELSE s
        dot  == DotPos(body)
        ip   == IF dot = 0 THEN body ELSE SubSeq(body, 1, dot - 1)
        fp   == IF dot = 0 THEN <<>> ELSE SubSeq(body, dot + 1, Len(body))
        good == /\ AllDigits(ip) /\ AllDigits(fp)
                /\ (ip # <<>> \/ fp # <<>>)
    IN  IF ~good THEN [ok |-> FALSE, whole |-> 0, exact |-> FALSE]
        ELSE [ok    |-> TRUE,
              whole |-> IF neg THEN 0 - DigitsToNat(ip) ELSE DigitsToNat(ip),
              exact |-> DigitsToNat(fp) = 0]

\* str.strip() for blanks
RECURSIVE Strip(_)
Strip(s) ==
    IF s = <<>> THEN s
    ELSE IF s[1] = " " THEN Strip(Tail(s))
    ELSE IF s[Len(s)] = " " THEN Strip(SubSeq(s, 1, Len(s) - 1))
    ELSE s

\* str.split('\n')
RECURSIVE SplitLines(_)
SplitLines(s) ==
    IF \E i \in 1..Len(s) : s[i] = "\n"
    THEN LET k == CHOOSE i \in 1..Len(s) :
                      s[i] = "\n" /\ \A j \in 1..(i - 1) : s[j] # "\n"
         IN  <<SubSeq(s, 1, k - 1)>> \o SplitLines(SubSeq(s, k + 1, Len(s)))
    ELSE <<s>>

RECURSIVE SelectNonEmpty(_)
SelectNonEmpty(q) ==
    IF q = <<>> THEN <<>>
    ELSE IF Strip(Head(q)) # <<>>
         THEN <<Strip(Head(q))>> \o SelectNonEmpty(Tail(q))
         ELSE SelectNonEmpty(Tail(q))

Pad2(n) == IF n < 10 THEN <<"0">> \o NatToStr(n) ELSE NatToStr(n)

Pad4(n) ==
    IF n < 10 THEN <<"0", "0", "0">> \o NatToStr(n)
    ELSE IF n < 100 THEN <<"0", "0">> \o NatToStr(n)
    ELSE IF n < 1000 THEN <<"0">> \o NatToStr(n)
    ELSE NatToStr(n)

\* date.strftime("%Y-%m-%d")
StrftimeDate(d) == Pad4(d.y) \o <<"-">> \o Pad2(d.m) \o <<"-">> \o Pad2(d.d)

\* datetime.now().strftime("%Y-%m-%d %H:%M:%S") at clock reading t: the
\* text is an injective function of the second, written here as "T" + t.
StrftimeNow(t) == <<"T">> \o NatToStr(t)

(***************************************************************************)
(* Program constants and the column schema.                                *)
(***************************************************************************)
SafetyMargin == 300

DefaultExpire == 7200

EXPECTED_COLS ==
    <<"id", "customer_name", "customer_phone", "departure_date",
      "customer_notes", "payment_methods", "deposit_amount",
      "final_payment_amount", "total_payment_amount", "lines", "adult_count",
      "child_count", "adult_price", "child_price", "total_pax_price",
      "partners", "total_revenue", "total_cost", "profit",
      "total_collection", "created_at", "updated_at">>

ColSet == {EXPECTED_COLS[i] : i \in 1..Len(EXPECTED_COLS)}

IntCols == {"id", "adult_count", "child_count"}

FloatCols ==
    {"deposit_amount", "final_payment_amount", "total_payment_amount",
     "adult_price", "child_price", "total_pax_price", "total_revenue",
     "total_cost", "profit", "total_collection"}

JsonCols == {"payment_methods", "lines", "partners"}

(***************************************************************************)
(* Derived-field calculator.                                               *)
(***************************************************************************)
\* variant: the children are left out of the price
calculate_pax_price_AdultsOnly(adult_count, adult_price, child_count, child_price) ==
    adult_count * adult_price

calculate_pax_price(adult_count, adult_price, child_count, child_price) ==
    (adult_count * adult_price) + (child_count * child_price)

calculate_received_payment(deposit, final_payment) == deposit + final_payment

\* variant: every partner counts, named or not
PartnerCounts_Always(p) == TRUE

\* isinstance(p, dict) and p.get('name','').strip()
PartnerCounts(p) == Strip(p.name) # <<>>

RECURSIVE SumSettlement(_)
SumSettlement(ps) ==
    IF ps = <<>> THEN 0
    ELSE (IF PartnerCounts(Head(ps)) THEN Head(ps).settlement ELSE 0)
         + SumSettlement(Tail(ps))

RECURSIVE SumCollection(_)
SumCollection(ps) ==
    IF ps = <<>> THEN 0
    ELSE (IF PartnerCounts(Head(ps)) THEN Head(ps).collection ELSE 0)
         + SumCollection(Tail(ps))

\* returns (total_cost, total_collection)
calculate_partner_totals(partners_list) ==
    <<SumSettlement(partners_list), SumCollection(partners_list)>>

(***************************************************************************)
(* Tabular codec: the row written by save_data_to_feishu and the order     *)
(* read back by load_data_from_feishu.                                     *)
(***************************************************************************)
BlankJson == [kind |-> "blank", json |-> <<>>]

\* a partner dictionary as JSON text holds it: the amounts, floats in the
\* order, are written as number literals ("200.0")
RECURSIVE PartnersToJson(_)
PartnersToJson(ps) ==
    IF ps = <<>> THEN <<>>
    ELSE <<[name |-> Head(ps).name,
            settlement |-> FloatToStr(Head(ps).settlement),
            collection |-> FloatToStr(Head(ps).collection),
            notes |-> Head(ps).notes]>> \o PartnersToJson(Tail(ps))

\* json.dumps of a list: a cell holding the JSON text of v
JsonDumps(v) == [kind |-> "list", json |-> v]

\* one cell of the row, by the run-time type the column's value has
EncodeCell(col, value) ==
    IF col = "partners" THEN JsonDumps(PartnersToJson(value))
    ELSE IF col \in JsonCols THEN JsonDumps(value)
    ELSE IF col \in IntCols THEN IntToStr(value)
    ELSE IF col \in FloatCols THEN FloatToStr(value)
    ELSE value

EncodeRow(order) == [col \in ColSet |-> EncodeCell(col, order[col])]

\* variant: [] whatever the cell holds
safe_json_loads_Empty(cell) == [isList |-> TRUE, v |-> <<>>]

\* safe_json_loads: what json.loads yields, [] for a blank or unparsable cell
safe_json_loads(cell) ==
    IF cell.kind = "blank" \/ cell.kind = "invalid" THEN [isList |-> TRUE, v |-> <<>>]
    ELSE IF cell.kind = "list" THEN [isList |-> TRUE, v |-> cell.json]
    ELSE [isList |-> FALSE, v |-> <<>>]

CellIsBlank(col, cell) ==
    IF col \in JsonCols THEN cell.kind = "blank" ELSE cell = <<>>

RowIsBlank(row) == \A col \in ColSet : CellIsBlank(col, row[col])

\* the partner dictionaries json.loads builds from the JSON text: number
\* literals become floats
RECURSIVE PartnersFromJson(_)
PartnersFromJson(js) ==
    IF js = <<>> THEN <<>>
    ELSE <<[name |-> Head(js).name,
            settlement |-> ParseFloat(Head(js).settlement).whole,
            collection |-> ParseFloat(Head(js).collection).whole,
            notes |-> Head(js).notes]>> \o PartnersFromJson(Tail(js))

\* variant: the parsed value is stored whatever its type
StoredJson_AsParsed(cell) == safe_json_loads(cell)

\* parsed_value if isinstance(parsed_value, list) else []
StoredJson(cell) ==
    IF safe_json_loads(cell).isList THEN safe_json_loads(cell)
    ELSE [isList |-> TRUE, v |-> <<>>]

\* float(text) is infinite
FloatIsInf(s) == s \in {<<"i", "n", "f">>, <<"-", "i", "n", "f">>}

Infinity == "inf"

DecodeCell(col, cell) ==
    IF col \in IntCols
    THEN IF cell = <<>> THEN 0
         ELSE IF ParseFloat(cell).ok THEN ParseFloat(cell).whole ELSE 0
    ELSE IF col \in FloatCols
    THEN IF cell = <<>> THEN 0
         ELSE IF FloatIsInf(cell) THEN Infinity
         ELSE IF ParseFloat(cell).ok THEN ParseFloat(cell).whole ELSE 0
    ELSE IF col \in JsonCols
    THEN IF col = "partners" THEN PartnersFromJson(StoredJson(cell).v)
         ELSE StoredJson(cell).v
    ELSE cell

DecodeRow(row) == [col \in ColSet |-> DecodeCell(col, row[col])]

\* int(float(value)) raises OverflowError, which the except clause of the
\* cell conversion (ValueError, TypeError, JSONDecodeError) lets through
CellRaises(col, cell) == col \in IntCols /\ FloatIsInf(cell)

RowRaises(row) ==
    ~RowIsBlank(row) /\ \E col \in ColSet : CellRaises(col, row[col])

RECURSIVE DecodeRows(_)
DecodeRows(rows) ==
    IF rows = <<>> THEN <<>>
    ELSE IF RowIsBlank(Head(rows)) THEN DecodeRows(Tail(rows))
    ELSE <<DecodeRow(Head(rows))>> \o DecodeRows(Tail(rows))

\* the loop over data_rows: an exception that escapes a cell conversion is
\* caught by the handler of the whole function, which returns []
RowLoop(rows) ==
    IF \E i \in 1..Len(rows) : RowRaises(rows[i])
    THEN [raised |-> TRUE, orders |-> <<>>]
    ELSE [raised |-> FALSE, orders |-> DecodeRows(rows)]

\* sorted(orders_list, key=id): a stable insertion sort
RECURSIVE InsertById(_, _)
InsertById(o, sorted) ==
    IF sorted = <<>> THEN <<o>>
    ELSE IF o.id < Head(sorted).id THEN <<o>> \o sorted
    ELSE <<Head(sorted)>> \o InsertById(o, Tail(sorted))

RECURSIVE SortedById(_)
SortedById(list) ==
    IF list = <<>> THEN <<>>
    ELSE InsertById(list[Len(list)], SortedById(SubSeq(list, 1, Len(list) - 1)))

RECURSIVE EncodeRows(_)
EncodeRows(list) ==
    IF list = <<>> THEN <<>>
    ELSE <<EncodeRow(Head(list))>> \o EncodeRows(Tail(list))

\* values_to_write below the header row
ValuesToWrite(orders_list) == EncodeRows(SortedById(orders_list))

(***************************************************************************)
(* Inputs: the form drafts and the outcomes of the remote calls.           *)
(***************************************************************************)
NoDate == [y |-> 0, m |-> 0, d |-> 0]      \* date_input returned None

NoToken == "none"                          \* _tenant_access_token is None

ClockStep == SafetyMargin

\* the 'expire' field of the exchange response
TTLs == {2 * SafetyMargin}

DraftLi ==
    [customer_name |-> <<"L", "i">>, customer_phone |-> <<"1", "2", "3">>,
     departure_date |-> [y |-> 2025, m |-> 1, d |-> 1],
     customer_notes |-> <<>>, payment_methods |-> << <<"W", "X">> >>,
     deposit_amount |-> 300, final_payment_amount |-> 700,
     total_payment_amount |-> 1000,
     lines_text |-> <<"A", "\n", " ", "\n", "B", " ">>,
     adult_count |-> 2, adult_price |-> 300,
     child_count |-> 0, child_price |-> 0,
     partners |-> <<[id |-> 0, name |-> <<"B", "o", "b">>, settlement |-> 200,
                     collection |-> 0, notes |-> <<>>],
                    [id |-> 1, name |-> <<" ">>, settlement |-> 999,
                     collection |-> 999, notes |-> <<>>]>>]

DraftWang ==
    [customer_name |-> <<"W", "a", "n", "g">>, customer_phone |-> <<"4", "5">>,
     departure_date |-> [y |-> 2025, m |-> 12, d |-> 31],
     customer_notes |-> <<"v", "i", "p">>, payment_methods |-> <<>>,
     deposit_amount |-> 0, final_payment_amount |-> 0,
     total_payment_amount |-> 500,
     lines_text |-> <<>>,
     adult_count |-> 1, adult_price |-> 400,
     child_count |-> 1, child_price |-> 50,
     partners |-> <<[id |-> 0, name |-> <<"A">>, settlement |-> 600,
                     collection |-> 50, notes |-> <<"n">>]>>]

Drafts ==
    {DraftLi, DraftWang,
     [DraftLi EXCEPT !.customer_name = <<>>],
     [DraftLi EXCEPT !.customer_phone = <<>>],
     [DraftLi EXCEPT !.departure_date = NoDate],
     [DraftLi EXCEPT !.total_payment_amount = 0]}

\* the drafts submitted in the new-order form and in the edit form
NewDrafts == Drafts \ {DraftWang}

EditDrafts == Drafts \ {DraftLi}

ExchangeOutcomes == {"ok", "code", "timeout", "neterr"}

ReadOutcomes == {"ok", "code", "timeout", "neterr"}

\* clear_range: accepted; answered with a non-200 status or a non-zero
\* code; timed out; transport failure or unparsable answer.  A call that
\* does not end in "ok" leaves the sheet as it was.
ClearOutcomes == {"ok", "rejected", "timeout", "neterr"}

\* PUT values: accepted; non-zero code; timed out; HTTP error status or
\* transport failure
WriteOutcomes == {"ok", "code", "timeout", "neterr"}

(***************************************************************************)
(* State.                                                                  *)
(***************************************************************************)
VARIABLES
    orders,                 \* st.session_state.orders
    order_id_counter,       \* st.session_state.order_id_counter
    feishu_data_loaded,     \* st.session_state.feishu_data_loaded
    submit_lock,            \* st.session_state.submit_lock
    secrets_ok,             \* the three required st.secrets are all set
    tenant_access_token,    \* _tenant_access_token
    token_expires_at,       \* _token_expires_at
    now,                    \* time.time()
    sheet,                  \* the spreadsheet: first row and the rows below
    io,                     \* remote calls issued by the latest operation
    last,                   \* the latest operation and how it ended
    load_ok,                \* the latest load read the sheet successfully
    last_created,           \* id of the latest successful create since load
    retired,                \* ids removed by a successful delete
    watch,                  \* which of the history variables are recorded
    threads,                \* callers inside get_feishu_tenant_token
    probe                   \* the latest application of a function on its own

vars ==
    <<orders, order_id_counter, feishu_data_loaded, submit_lock, secrets_ok,
      tenant_access_token, token_expires_at, now, sheet, io, last, load_ok,
      last_created, retired, watch, threads, probe>>

\* remote calls issued by one operation: the number of each kind, and the
\* number of token exchanges that did not yield a token
NoIo ==
    [exchange |-> 0, exchange_failed |-> 0, read |-> 0, clear |-> 0,
     write |-> 0]

\* no function has been applied on its own
NoProbe == [fn |-> "none", input |-> <<>>, output |-> <<>>]

\* the callers that may be inside get_feishu_tenant_token at the same time
Callers == {1, 2}

\* a caller outside the function
IdleThread ==
    [pc |-> "idle", current_time |-> 0, outcome |-> "none",
     token |-> NoToken, expire |-> 0, returned |-> NoToken]

\* The history variables io, last, load_ok, last_created and retired record
\* what the operations did and change nothing the program reads.  Each
\* specification records the ones its properties read and leaves the others
\* at their initial values:
\*   "ops"  - the operation, its result, the kind of its input and the
\*            remote calls it issued (io);
\*   "sync" - the operation, its result, load_ok, whether every remote call
\*            succeeded and whether the operation before it failed to persist;
\*   "ids"  - last_created, retired and whether the latest operation was a
\*            successful create;
\*   "load" - the operation, its result and the kind of its input or, for a
\*            load, the return statement it took;
\*   "trip" - the operation, its result and whether every save and load so
\*            far has succeeded (all_ok);
\*   "calls" - the operation, its result and, for an operation that went on
\*            to the save, the transport failure of its clear and write calls;
\*   "lock" - the operation and its result;
\*   "race", "calc" - nothing.
InitWatching(w) ==
    /\ watch = w
    /\ orders = <<>>
    /\ order_id_counter = 1
    /\ feishu_data_loaded = FALSE
    /\ submit_lock = FALSE
    /\ secrets_ok \in BOOLEAN
    /\ tenant_access_token = NoToken
    /\ token_expires_at = 0
    /\ now = 0
    /\ sheet = [header |-> EXPECTED_COLS, rows |-> <<>>]
    /\ io = NoIo
    /\ last = [op |-> "none", result |-> "none", input |-> "none",
               calls_ok |-> FALSE, prev_partial |-> FALSE,
               all_ok |-> TRUE, sel |-> 0]
    /\ load_ok = FALSE
    /\ last_created = 0
    /\ retired = {}
    /\ threads = [c \in Callers |-> IdleThread]
    /\ probe = NoProbe

Init == InitWatching("ops")

InitSync == InitWatching("sync")

InitIds == InitWatching("ids")

\* the values recorded under the current watch
RecIo(x) == IF watch = "ops" THEN x ELSE NoIo

RecLoadOk(b) == IF watch = "sync" THEN b ELSE FALSE

RecLastCreated(id) == IF watch = "ids" THEN id ELSE 0

RecRetired(ids) == IF watch = "ids" THEN ids ELSE {}

(***************************************************************************)
(* Token manager.                                                          *)
(***************************************************************************)
\* variant: a token exactly SafetyMargin before its expiry still counts
TokenIsFresh_Inclusive ==
    tenant_access_token # NoToken /\ now <= token_expires_at - SafetyMargin

TokenIsFresh ==
    tenant_access_token # NoToken /\ now < token_expires_at - SafetyMargin

\* variant: an exchange that timed out or could not be sent is sent again
get_feishu_tenant_token_Retry(ex, ttl) ==
    IF TokenIsFresh
    THEN [token |-> tenant_access_token, cache_tok |-> tenant_access_token,
          cache_exp |-> token_expires_at, exchange |-> 0]
    ELSE IF ex = "ok"
    THEN [token |-> "tok", cache_tok |-> "tok", cache_exp |-> now + ttl,
          exchange |-> 1]
    ELSE IF ex = "code"
    THEN [token |-> NoToken, cache_tok |-> NoToken, cache_exp |-> 0,
          exchange |-> 1]
    ELSE [token |-> NoToken, cache_tok |-> tenant_access_token,
          cache_exp |-> token_expires_at, exchange |-> 2]

\* get_feishu_tenant_token with the exchange ending in ex (ttl: 'expire');
\* token is the value returned, cache_* the globals afterwards
get_feishu_tenant_token(ex, ttl) ==
    IF TokenIsFresh
    THEN [token |-> tenant_access_token, cache_tok |-> tenant_access_token,
          cache_exp |-> token_expires_at, exchange |-> 0]
    ELSE IF ex = "ok"
    THEN [token |-> "tok", cache_tok |-> "tok", cache_exp |-> now + ttl,
          exchange |-> 1]
    ELSE IF ex = "code"
    THEN [token |-> NoToken, cache_tok |-> NoToken, cache_exp |-> 0,
          exchange |-> 1]
    ELSE [token |-> NoToken, cache_tok |-> tenant_access_token,
          cache_exp |-> token_expires_at, exchange |-> 1]

\* the calls issued by get_feishu_tenant_token when its result is g
IoOfToken(g) ==
    [NoIo EXCEPT !.exchange = g.exchange,
                 !.exchange_failed =
                     IF g.exchange = 1 /\ g.token = NoToken THEN 1 ELSE 0]

\* the results get_feishu_tenant_token can have in the current state
TokenResults ==
    {get_feishu_tenant_token(ex, ttl) : ex \in ExchangeOutcomes, ttl \in TTLs}

(***************************************************************************)
(* The spreadsheet service.                                                *)
(***************************************************************************)
\* POST clear_range A2:V accepted: every row below the first is emptied
ClearRange(sh) == [header |-> sh.header, rows |-> <<>>]

\* PUT values on A1:V{1+len(rows)}: the block overwrites the first row and
\* the rows it covers; rows below the block stay as they were
PutValues(sh, rows) ==
    [header |-> EXPECTED_COLS,
     rows   |-> rows \o SubSeq(sh.rows, Len(rows) + 1, Len(sh.rows))]

(***************************************************************************)
(* load_data_from_feishu and save_data_to_feishu, given the token result g *)
(* and the outcomes of the remote calls.                                   *)
(***************************************************************************)
ReadChoices(g) == IF g.token = NoToken THEN {"none"} ELSE ReadOutcomes

\* variant: a first row with the expected names in another order passes
HeaderMatches_SameColumns(header_row) ==
    /\ Len(header_row) = Len(EXPECTED_COLS)
    /\ {header_row[i] : i \in 1..Len(header_row)} = ColSet

\* header_row != EXPECTED_COLS is false
HeaderMatches(header_row) == header_row = EXPECTED_COLS

\* the list returned, whether the sheet was read, the number of reads issued
\* and the return statement taken
load_data_from_feishu(g, rd) ==
    IF g.token = NoToken
    THEN [orders |-> <<>>, ok |-> FALSE, read |-> 0, why |-> "token"]
    ELSE IF rd # "ok"
    THEN [orders |-> <<>>, ok |-> FALSE, read |-> 1, why |-> rd]
    ELSE IF sheet.header = <<>>
    THEN [orders |-> <<>>, ok |-> TRUE, read |-> 1, why |-> "no_data"]
    ELSE IF ~HeaderMatches(sheet.header)
    THEN [orders |-> <<>>, ok |-> FALSE, read |-> 1, why |-> "header"]
    ELSE IF RowLoop(sheet.rows).raised
    THEN [orders |-> <<>>, ok |-> FALSE, read |-> 1, why |-> "exception"]
    ELSE [orders |-> RowLoop(sheet.rows).orders, ok |-> TRUE, read |-> 1,
          why |-> "decoded"]

\* variant: a clear call that timed out is passed over like a rejected one
ClearContinues_Timeout(cl) == cl \in {"ok", "rejected", "timeout"}

\* the clear attempt lets the write go ahead
ClearContinues(cl) == cl \in {"ok", "rejected"}

\* variant: the save goes on without a token
TokenMissing_Never(g) == FALSE

\* if not token: return False
TokenMissing(g) == g.token = NoToken

\* the outcomes <<clear, write>> of the two calls of one save
SaveChoices(g) ==
    IF TokenMissing(g) THEN {<<"none", "none">>}
    ELSE {<<cl, "none">> : cl \in {c \in ClearOutcomes : ~ClearContinues(c)}}
         \cup {<<cl, wr>> : cl \in {c \in ClearOutcomes : ClearContinues(c)},
                            wr \in WriteOutcomes}

\* the sheet after the clear attempt
SheetAfterClear(sh, cl) ==
    IF cl = "ok" THEN ClearRange(sh) ELSE sh

\* the sheet after the write attempt
SheetAfterWrite(sh, rows, wr) ==
    IF wr = "ok" THEN PutValues(sh, rows) ELSE sh

\* rows: values_to_write below the header, built before the calls
save_data_to_feishu(rows, g, cl, wr) ==
    IF TokenMissing(g)
    THEN [success |-> FALSE, sheet |-> sheet, calls_ok |-> FALSE,
          io |-> IoOfToken(g)]
    ELSE IF ~ClearContinues(cl)
    THEN [success |-> FALSE, sheet |-> SheetAfterClear(sheet, cl),
          calls_ok |-> FALSE,
          io |-> [IoOfToken(g) EXCEPT !.clear = 1]]
    ELSE [success |-> (wr = "ok"),
          sheet |-> SheetAfterWrite(SheetAfterClear(sheet, cl), rows, wr),
          calls_ok |-> (cl = "ok" /\ wr = "ok"),
          io |-> [IoOfToken(g) EXCEPT !.clear = 1,
                              !.write = 1]]

\* variant: the list is sorted in place (orders_list.sort)
ListAfterSave_SortedInPlace(orders_list) == SortedById(orders_list)

\* the list passed to save_data_to_feishu when the call returns: sorted()
\* builds a new list and the rows are built from reads of the orders
ListAfterSave(orders_list) == orders_list

\* Timeout and RequestException of the clear call or the write call
TransportFailures == {"timeout", "neterr"}

\* how the clear call and the write call of a save ended: the transport
\* failure, or "done" for a call that got an answer or was not issued
RecCalls(cw) ==
    IF watch = "calls"
    THEN [clear |-> IF cw[1] \in TransportFailures THEN cw[1] ELSE "done",
          write |-> IF cw[2] \in TransportFailures THEN cw[2] ELSE "done"]
    ELSE <<>>

\* every result one save of orders_list can have in the current state
SaveResults(orders_list) ==
    LET rows == ValuesToWrite(orders_list) IN
    UNION {{[r |-> save_data_to_feishu(rows, g, cw[1], cw[2]),
             cache_tok |-> g.cache_tok, cache_exp |-> g.cache_exp,
             calls |-> RecCalls(cw)] :
                cw \in SaveChoices(g)} : g \in TokenResults}

(***************************************************************************)
(* init_app_data and the reload button.                                    *)
(***************************************************************************)
Max(a, b) == IF a >= b THEN a ELSE b

\* max of the ids that are non-negative integers, 0 when there is none
MaxValidId(list) ==
    LET valid == {list[i].id : i \in {j \in 1..Len(list) : list[j].id >= 0}}
    IN  IF valid = {} THEN 0 ELSE CHOOSE m \in valid : \A v \in valid : v <= m

\* variant: the counter follows the number of orders loaded
CounterAfterLoad_Count(loaded) == Len(loaded) + 1

\* order_id_counter after a load that returned loaded
CounterAfterLoad(loaded) ==
    IF loaded # <<>> THEN MaxValidId(loaded) + 1 ELSE 1

\* the history record rec of an update or a delete, with the id that was
\* selected when the operation was saved
MarkSel(rec, sel) ==
    IF watch = "ops" /\ rec.result = "ok" THEN [rec EXCEPT !.sel = sel]
    ELSE rec

\* the history record rec of an operation that went on to the save, with
\* the outcomes of the calls of the save
MarkCalls(rec, calls) ==
    IF watch = "calls" THEN [rec EXCEPT !.input = calls] ELSE rec

\* variant: init_app_data empties orders at the top of every run
OrdersAtRunStart_Cleared == <<>>

\* orders as init_app_data leaves them at the top of a run in which the
\* data were already loaded
OrdersAtRunStart == IF secrets_ok THEN orders ELSE <<>>

\* variant: the handlers go on to the save without the configuration
ConfigMissing_Never == FALSE

\* not all([app_id_save, app_secret_save, spreadsheet_token_save])
ConfigMissing == ~secrets_ok

\* the history record of an operation: what it was, how it ended, the kind
\* of its input, whether each remote call it issued succeeded, and whether
\* the operation before it was a mutation that failed to persist
Mark(op, result, input, calls_ok) ==
    IF watch = "ids"
    THEN IF op = "create" /\ result = "ok"
         THEN [op |-> op, result |-> result, input |-> "none",
               calls_ok |-> FALSE, prev_partial |-> FALSE,
               all_ok |-> TRUE, sel |-> 0]
         ELSE [op |-> "other", result |-> "none", input |-> "none",
               calls_ok |-> FALSE, prev_partial |-> FALSE,
               all_ok |-> TRUE, sel |-> 0]
    ELSE [op |-> op, result |-> result,
          input |-> IF watch \in {"ops", "load"} THEN input ELSE "none",
          calls_ok |-> IF watch = "sync" THEN calls_ok ELSE FALSE,
          prev_partial |-> IF watch = "sync"
                           THEN last.result = "persist_failed"
                           ELSE FALSE,
          all_ok |-> IF watch = "trip"
                     THEN /\ last.all_ok
                          /\ result \notin {"persist_failed", "load_failed"}
                     ELSE TRUE,
          sel |-> 0]

\* variant: only a load that read the sheet is marked
LoadedAfterLoad_OnSuccess(ok) == ok

\* feishu_data_loaded after the load, whether or not it succeeded
LoadedAfterLoad(ok) == TRUE

\* init_app_data entered with counter c0 and feishu_data_loaded false
InitAppData(c0) ==
    /\ last_created' = 0
    /\ UNCHANGED <<submit_lock, secrets_ok, now, sheet, retired, watch,
                   threads, probe>>
    /\ IF ~secrets_ok
       THEN /\ orders' = <<>>
            /\ feishu_data_loaded' = TRUE
            /\ order_id_counter' = c0
            /\ io' = RecIo(NoIo)
            /\ load_ok' = FALSE
            /\ last' = Mark("load", "no_config", "none", FALSE)
            /\ UNCHANGED <<tenant_access_token, token_expires_at>>
       ELSE \E g \in TokenResults : \E rd \in ReadChoices(g) :
              LET r == load_data_from_feishu(g, rd) IN
              /\ tenant_access_token' = g.cache_tok
              /\ token_expires_at' = g.cache_exp
              /\ orders' = r.orders
              /\ order_id_counter' = CounterAfterLoad(r.orders)
              /\ feishu_data_loaded' = LoadedAfterLoad(r.ok)
              /\ io' = RecIo([IoOfToken(g) EXCEPT !.read = r.read])
              /\ load_ok' = RecLoadOk(r.ok)
              /\ last' = Mark("load", IF r.ok THEN "ok" ELSE "load_failed",
                              r.why, r.ok)

\* the first run of the script in a session
FirstRun ==
    /\ ~feishu_data_loaded
    /\ InitAppData(order_id_counter)

\* the sidebar button: orders and order_id_counter are deleted and set up
\* again by init_session_state, then the rerun loads
ReloadButton ==
    /\ feishu_data_loaded
    /\ InitAppData(1)

\* time passes
Tick ==
    /\ now < MaxTicks * ClockStep
    /\ now' = now + ClockStep
    /\ UNCHANGED <<orders, order_id_counter, feishu_data_loaded, submit_lock,
                   secrets_ok, tenant_access_token, token_expires_at, sheet,
                   io, last, load_ok, last_created, retired, watch,
                   threads, probe>>

(***************************************************************************)
(* The create handler (save_new_order).                                    *)
(***************************************************************************)
\* variant: the check of the total is left out
CreateErrors_NoTotal(d) ==
    (IF d.customer_name = <<>> THEN {"name"} ELSE {})
    \cup (IF d.customer_phone = <<>> THEN {"phone"} ELSE {})
    \cup (IF d.departure_date = NoDate THEN {"date"} ELSE {})

\* the messages collected in errors
CreateErrors(d) ==
    (IF d.customer_name = <<>> THEN {"name"} ELSE {})
    \cup (IF d.customer_phone = <<>> THEN {"phone"} ELSE {})
    \cup (IF d.departure_date = NoDate THEN {"date"} ELSE {})
    \cup (IF d.total_payment_amount <= 0 THEN {"total"} ELSE {})

\* variant: the rows of the partner editor are stored as they are
FinalPartners_Raw(raw) == raw

\* partners kept for the order: named ones, without the form's 'id'
RECURSIVE FinalPartners(_)
FinalPartners(raw) ==
    IF raw = <<>> THEN <<>>
    ELSE IF Strip(Head(raw).name) # <<>>
         THEN <<[name |-> Head(raw).name, settlement |-> Head(raw).settlement,
                 collection |-> Head(raw).collection,
                 notes |-> Head(raw).notes]>> \o FinalPartners(Tail(raw))
         ELSE FinalPartners(Tail(raw))

LinesList(lines_text) == SelectNonEmpty(SplitLines(lines_text))

\* the order dictionary both handlers build from the form
OrderData(d, id, created_at, updated_at) ==
    [id |-> id,
     customer_name |-> d.customer_name,
     customer_phone |-> d.customer_phone,
     departure_date |-> IF d.departure_date # NoDate
                        THEN StrftimeDate(d.departure_date) ELSE <<>>,
     customer_notes |-> d.customer_notes,
     payment_methods |-> d.payment_methods,
     deposit_amount |-> d.deposit_amount,
     final_payment_amount |-> d.final_payment_amount,
     total_payment_amount |-> d.total_payment_amount,
     lines |-> LinesList(d.lines_text),
     adult_count |-> d.adult_count,
     child_count |-> d.child_count,
     adult_price |-> d.adult_price,
     child_price |-> d.child_price,
     total_pax_price |-> calculate_pax_price(d.adult_count, d.adult_price,
                                             d.child_count, d.child_price),
     partners |-> FinalPartners(d.partners),
     total_revenue |-> d.total_payment_amount,
     total_cost |-> calculate_partner_totals(FinalPartners(d.partners))[1],
     profit |-> d.total_payment_amount
                - calculate_partner_totals(FinalPartners(d.partners))[1],
     total_collection |-> calculate_partner_totals(FinalPartners(d.partners))[2],
     created_at |-> created_at,
     updated_at |-> updated_at]

new_order_data(d, local_id) == OrderData(d, local_id, StrftimeNow(now), <<>>)

\* variant: the id is taken from the list alone, the counter is ignored
RefreshedCounter_FromList(list) == MaxValidId(list) + 1

\* order_id_counter as the handler refreshes it before taking local_id
RefreshedCounter(list) == Max(order_id_counter, MaxValidId(list) + 1)

\* variant: the counter is not advanced
CounterAfterCreate_Stay(local_id) == local_id

\* order_id_counter after a successful save of the order with local_id
CounterAfterCreate(local_id) == local_id + 1

\* variant: the appended order is not removed
CreateRollback_Keep(list) == list

\* st.session_state.orders.pop() after a failed save
CreateRollback(list) == SubSeq(list, 1, Len(list) - 1)

\* the kind of a draft, in the words of the validation rule: a required
\* field left empty, a total of zero, or neither
DraftKind(d) ==
    IF d.customer_name = <<>> \/ d.customer_phone = <<>>
       \/ d.departure_date = NoDate THEN "missing_field"
    ELSE IF d.total_payment_amount = 0 THEN "zero_total"
    ELSE "valid"

\* variant: the lock is kept when the save failed
LockAfterAttempt_HeldOnFailure(result) == result = "persist_failed"

\* st.session_state.submit_lock = False, on each path out of the handler
LockAfterAttempt(result) == FALSE

SaveNewOrder ==
    /\ feishu_data_loaded
    /\ ~submit_lock
    /\ Len(OrdersAtRunStart) < MaxOrders
    /\ order_id_counter <= MaxId
    /\ UNCHANGED <<feishu_data_loaded, secrets_ok, now, load_ok, retired, watch,
                   threads, probe>>
    /\ \E d \in NewDrafts :
         LET o0       == OrdersAtRunStart
             local_id == RefreshedCounter(o0)
             appended == Append(o0, new_order_data(d, local_id))
         IN  IF CreateErrors(d) # {}
             THEN /\ orders' = o0
                  /\ io' = RecIo(NoIo)
                  /\ submit_lock' = LockAfterAttempt("invalid")
                  /\ last' = Mark("create", "invalid", DraftKind(d), FALSE)
                  /\ UNCHANGED <<order_id_counter, tenant_access_token,
                                 token_expires_at, sheet, last_created>>
             ELSE IF ConfigMissing
             THEN /\ orders' = CreateRollback(appended)
                  /\ order_id_counter' = local_id
                  /\ io' = RecIo(NoIo)
                  /\ submit_lock' = LockAfterAttempt("no_config")
                  /\ last' = Mark("create", "no_config", DraftKind(d), FALSE)
                  /\ UNCHANGED <<tenant_access_token, token_expires_at, sheet,
                                 last_created>>
             ELSE \E s \in SaveResults(appended) :
                  /\ tenant_access_token' = s.cache_tok
                  /\ token_expires_at' = s.cache_exp
                  /\ sheet' = s.r.sheet
                  /\ io' = RecIo(s.r.io)
                  /\ orders' = IF s.r.success THEN ListAfterSave(appended)
                               ELSE CreateRollback(ListAfterSave(appended))
                  /\ order_id_counter' =
                         IF s.r.success THEN CounterAfterCreate(local_id)
                         ELSE local_id
                  /\ last_created' =
                         IF s.r.success THEN RecLastCreated(local_id)
                         ELSE last_created
                  /\ submit_lock' =
                         LockAfterAttempt(IF s.r.success THEN "ok"
                                          ELSE "persist_failed")
                  /\ last' = MarkCalls(Mark("create",
                                            IF s.r.success THEN "ok"
                                            ELSE "persist_failed",
                                            DraftKind(d), s.r.calls_ok), s.calls)

\* the run is stopped inside the handler: every path calls Streamlit
\* (st.error, the end of st.spinner, st.success) before it releases the lock
\* and before it undoes the append, and a rerun requested meanwhile (or an
\* exception) ends the run there; session_state keeps what was assigned
SaveNewOrderStopped ==
    /\ feishu_data_loaded
    /\ ~submit_lock
    /\ Len(OrdersAtRunStart) < MaxOrders
    /\ order_id_counter <= MaxId
    /\ submit_lock' = TRUE
    /\ UNCHANGED <<feishu_data_loaded, secrets_ok, now, load_ok, retired, watch,
                   threads, probe, last_created>>
    /\ io' = RecIo(NoIo)
    /\ last' = Mark("create", "stopped", "none", FALSE)
    /\ \E d \in NewDrafts :
         LET o0       == OrdersAtRunStart
             local_id == RefreshedCounter(o0)
             appended == Append(o0, new_order_data(d, local_id))
         IN  IF CreateErrors(d) # {}
             THEN /\ orders' = o0
                  /\ UNCHANGED <<order_id_counter, tenant_access_token,
                                 token_expires_at, sheet>>
             ELSE IF ConfigMissing
             THEN /\ orders' = appended
                  /\ order_id_counter' = local_id
                  /\ UNCHANGED <<tenant_access_token, token_expires_at, sheet>>
             ELSE \E s \in SaveResults(appended) :
                  /\ tenant_access_token' = s.cache_tok
                  /\ token_expires_at' = s.cache_exp
                  /\ sheet' = s.r.sheet
                  /\ orders' = ListAfterSave(appended)
                  /\ order_id_counter' = local_id

\* the save button clicked while submit_lock is set: the handler body is
\* skipped
SaveNewOrderLocked ==
    /\ feishu_data_loaded
    /\ submit_lock
    /\ orders' = OrdersAtRunStart
    /\ io' = RecIo(NoIo)
    /\ last' = Mark("create", "locked", "none", FALSE)
    /\ UNCHANGED <<order_id_counter, feishu_data_loaded, submit_lock,
                   secrets_ok, tenant_access_token, token_expires_at, now,
                   sheet, load_ok, last_created, retired, watch,
                   threads, probe>>

(***************************************************************************)
(* The management page: selection, the edit form and the delete button.    *)
(***************************************************************************)
IdsOf(list) == {list[i].id : i \in 1..Len(list)}

\* order_index: the first position holding the selected id
OrderIndex(list, sel) ==
    CHOOSE i \in 1..Len(list) :
        list[i].id = sel /\ \A j \in 1..(i - 1) : list[j].id # sel

\* variant: a total of zero passes
EditErrors_ZeroPasses(d) ==
    (IF d.customer_name = <<>> THEN {"name"} ELSE {})
    \cup (IF d.customer_phone = <<>> THEN {"phone"} ELSE {})
    \cup (IF d.departure_date = NoDate THEN {"date"} ELSE {})
    \cup (IF d.total_payment_amount < 0 THEN {"total"} ELSE {})

\* the messages collected in edit_errors
EditErrors(d) ==
    (IF d.customer_name = <<>> THEN {"name"} ELSE {})
    \cup (IF d.customer_phone = <<>> THEN {"phone"} ELSE {})
    \cup (IF d.departure_date = NoDate THEN {"date"} ELSE {})
    \cup (IF d.total_payment_amount <= 0 THEN {"total"} ELSE {})

\* variant: the update stamps created_at as well
updated_order_data_Restamp(d, sel, original) ==
    OrderData(d, sel, StrftimeNow(now), StrftimeNow(now))

updated_order_data(d, sel, original) ==
    OrderData(d, sel, original.created_at, StrftimeNow(now))

\* variant: the replaced order is not put back
UpdateRollback_Keep(list, idx, original) == list

\* orders[order_index] = selected_order_original after a failed save
UpdateRollback(list, idx, original) == [list EXCEPT ![idx] = original]

EditSubmitted ==
    /\ feishu_data_loaded
    /\ UNCHANGED <<order_id_counter, feishu_data_loaded, submit_lock,
                   secrets_ok, now, load_ok, last_created, retired, watch,
                   threads, probe>>
    /\ \E sel \in IdsOf(OrdersAtRunStart) :
       \E d \in EditDrafts :
         LET o0       == OrdersAtRunStart
             idx      == OrderIndex(o0, sel)
             original == o0[idx]
             replaced == [o0 EXCEPT ![idx] = updated_order_data(d, sel, original)]
         IN  IF EditErrors(d) # {}
             THEN /\ orders' = o0
                  /\ io' = RecIo(NoIo)
                  /\ last' = Mark("update", "invalid", DraftKind(d), FALSE)
                  /\ UNCHANGED <<tenant_access_token, token_expires_at, sheet>>
             ELSE IF ConfigMissing
             THEN /\ orders' = UpdateRollback(replaced, idx, original)
                  /\ io' = RecIo(NoIo)
                  /\ last' = Mark("update", "no_config", DraftKind(d), FALSE)
                  /\ UNCHANGED <<tenant_access_token, token_expires_at, sheet>>
             ELSE \E s \in SaveResults(replaced) :
                  /\ tenant_access_token' = s.cache_tok
                  /\ token_expires_at' = s.cache_exp
                  /\ sheet' = s.r.sheet
                  /\ io' = RecIo(s.r.io)
                  /\ orders' = IF s.r.success THEN ListAfterSave(replaced)
                               ELSE UpdateRollback(ListAfterSave(replaced), idx,
                                                   original)
                  /\ last' = MarkCalls(MarkSel(Mark("update",
                                                    IF s.r.success THEN "ok"
                                                    ELSE "persist_failed",
                                                    DraftKind(d), s.r.calls_ok),
                                               sel), s.calls)

\* variant: the last order is removed, whatever the index
RemoveAt_Last(list, idx) == SubSeq(list, 1, Len(list) - 1)

\* orders.pop(order_index)
RemoveAt(list, idx) ==
    SubSeq(list, 1, idx - 1) \o SubSeq(list, idx + 1, Len(list))

\* variant: the removed order is put back at the front
DeleteRollback_Front(list, idx, deleted) == <<deleted>> \o list

\* variant: the removed order is put back at the end
DeleteRollback_Append(list, idx, deleted) == Append(list, deleted)

\* orders.insert(order_index, deleted_order_for_undo) after a failed save
DeleteRollback(list, idx, deleted) ==
    SubSeq(list, 1, idx - 1) \o <<deleted>> \o SubSeq(list, idx, Len(list))

DeleteExec ==
    /\ feishu_data_loaded
    /\ UNCHANGED <<order_id_counter, feishu_data_loaded, submit_lock,
                   secrets_ok, now, load_ok, last_created, watch,
                   threads, probe>>
    /\ \E sel \in IdsOf(OrdersAtRunStart) :
         LET o0      == OrdersAtRunStart
             idx     == OrderIndex(o0, sel)
             deleted == o0[idx]
             popped  == RemoveAt(o0, idx)
         IN  IF ConfigMissing
             THEN /\ orders' = DeleteRollback(popped, idx, deleted)
                  /\ io' = RecIo(NoIo)
                  /\ last' = Mark("delete", "no_config", "none", FALSE)
                  /\ UNCHANGED <<tenant_access_token, token_expires_at, sheet,
                                 retired>>
             ELSE \E s \in SaveResults(popped) :
                  /\ tenant_access_token' = s.cache_tok
                  /\ token_expires_at' = s.cache_exp
                  /\ sheet' = s.r.sheet
                  /\ io' = RecIo(s.r.io)
                  /\ orders' = IF s.r.success THEN ListAfterSave(popped)
                               ELSE DeleteRollback(ListAfterSave(popped), idx,
                                                   deleted)
                  /\ retired' = IF s.r.success
                                THEN RecRetired(retired \cup {sel})
                                ELSE retired
                  /\ last' = MarkCalls(MarkSel(Mark("delete",
                                                    IF s.r.success THEN "ok"
                                                    ELSE "persist_failed",
                                                    "none", s.r.calls_ok),
                                               sel), s.calls)

\* a selection that is not (or no longer) the id of an order: the page
\* reports an internal error and clears the selection
SelectMissing ==
    /\ feishu_data_loaded
    /\ OrdersAtRunStart # <<>>
    /\ (1..(MaxId + 1)) \ IdsOf(OrdersAtRunStart) # {}
    /\ orders' = OrdersAtRunStart
    /\ io' = RecIo(NoIo)
    /\ last' = Mark("select", "not_found", "none", FALSE)
    /\ UNCHANGED <<order_id_counter, feishu_data_loaded, submit_lock,
                   secrets_ok, tenant_access_token, token_expires_at, now,
                   sheet, load_ok, last_created, retired, watch,
                   threads, probe>>

Next ==
    \/ FirstRun
    \/ ReloadButton
    \/ Tick
    \/ SaveNewOrder
    \/ EditSubmitted
    \/ DeleteExec
    \/ SelectMissing

Spec == Init /\ [][Next]_vars

SpecSync == InitSync /\ [][Next]_vars

SpecIds == InitIds /\ [][Next]_vars

InitTrip == InitWatching("trip") /\ secrets_ok

SpecTrip == InitTrip /\ [][Next]_vars

\* the handlers together with the runs of the create handler that stop
\* before the lock is released
NextLock == Next \/ SaveNewOrderStopped \/ SaveNewOrderLocked

InitLock == InitWatching("lock")

SpecLock == InitLock /\ [][NextLock]_vars

InitCalls == InitWatching("calls") /\ secrets_ok

SpecCalls == InitCalls /\ [][Next]_vars

(***************************************************************************)
(* Sessions that start on a spreadsheet somebody else has filled in: the   *)
(* first row as the read returns it is the expected one or differs from it,*)
(* and rows may follow it.                                                 *)
(***************************************************************************)
\* the first two columns in the other order
HeaderSwapped ==
    <<EXPECTED_COLS[2], EXPECTED_COLS[1]>>
        \o SubSeq(EXPECTED_COLS, 3, Len(EXPECTED_COLS))

\* one column under another name
HeaderRenamed == [EXPECTED_COLS EXCEPT ![2] = "name"]

\* the last column is missing
HeaderMissing == SubSeq(EXPECTED_COLS, 1, Len(EXPECTED_COLS) - 1)

\* a column inserted in front; the range read ends at the 22nd column
HeaderExtra ==
    <<"remark">> \o SubSeq(EXPECTED_COLS, 1, Len(EXPECTED_COLS) - 1)

BadHeaders == {HeaderSwapped, HeaderRenamed, HeaderMissing, HeaderExtra}

\* rows as save_data_to_feishu writes them
RowLi2 == EncodeRow(OrderData(DraftLi, 2, StrftimeNow(0), <<>>))

RowWang1 == EncodeRow(OrderData(DraftWang, 1, StrftimeNow(0), <<>>))

InitRows == {<<>>, <<RowLi2>>, <<RowWang1, RowLi2>>}

InitSheets ==
    {[header |-> h, rows |-> r] :
        h \in {EXPECTED_COLS} \cup BadHeaders, r \in InitRows}
    \cup {[header |-> <<>>, rows |-> <<>>]}

InitLoad ==
    /\ watch = "load"
    /\ orders = <<>>
    /\ order_id_counter = 1
    /\ feishu_data_loaded = FALSE
    /\ submit_lock = FALSE
    /\ secrets_ok \in BOOLEAN
    /\ tenant_access_token = NoToken
    /\ token_expires_at = 0
    /\ now = 0
    /\ sheet \in InitSheets
    /\ io = NoIo
    /\ last = [op |-> "none", result |-> "none", input |-> "none",
               calls_ok |-> FALSE, prev_partial |-> FALSE,
               all_ok |-> TRUE, sel |-> 0]
    /\ load_ok = FALSE
    /\ last_created = 0
    /\ retired = {}
    /\ threads = [c \in Callers |-> IdleThread]
    /\ probe = NoProbe

SpecLoad == InitLoad /\ [][Next]_vars

(***************************************************************************)
(* get_feishu_tenant_token statement by statement, for callers that run it *)
(* at the same time on the shared globals.  Each action is one read or one *)
(* write of a global, or the exchange request.                             *)
(***************************************************************************)
\* the token carried by the response to caller c
TokenOf(c) == IF c = 1 THEN "tok1" ELSE "tok2"

AppVars ==
    <<orders, order_id_counter, feishu_data_loaded, submit_lock, secrets_ok,
      now, sheet, io, last, load_ok, last_created, retired, watch, probe>>

\* current_time = time.time() and the first operand of the cache test
GetTokenCall(c) ==
    /\ threads[c].pc = "idle"
    /\ threads' = [threads EXCEPT
                      ![c].current_time = now,
                      ![c].pc = IF tenant_access_token # NoToken
                                THEN "check_expiry" ELSE "post"]
    /\ UNCHANGED <<tenant_access_token, token_expires_at, AppVars>>

\* the second operand: current_time < (_token_expires_at - 300)
GetTokenCheckExpiry(c) ==
    /\ threads[c].pc = "check_expiry"
    /\ threads' = [threads EXCEPT
                      ![c].pc = IF threads[c].current_time
                                      < token_expires_at - SafetyMargin
                                THEN "return_cached" ELSE "post"]
    /\ UNCHANGED <<tenant_access_token, token_expires_at, AppVars>>

\* return _tenant_access_token (the cached one)
GetTokenReturnCached(c) ==
    /\ threads[c].pc = "return_cached"
    /\ threads' = [threads EXCEPT ![c].returned = tenant_access_token,
                                  ![c].pc = "done"]
    /\ UNCHANGED <<tenant_access_token, token_expires_at, AppVars>>

\* requests.post, raise_for_status, response.json() and the test of code
GetTokenPost(c) ==
    /\ threads[c].pc = "post"
    /\ \E ex \in ExchangeOutcomes : \E ttl \in TTLs :
         threads' = [threads EXCEPT
                       ![c].outcome = ex,
                       ![c].token = IF ex = "ok" THEN TokenOf(c) ELSE NoToken,
                       ![c].expire = IF ex = "ok" THEN ttl ELSE 0,
                       ![c].pc = IF ex = "ok" THEN "store_token"
                                 ELSE IF ex = "code" THEN "clear_token"
                                 ELSE "done"]
    /\ UNCHANGED <<tenant_access_token, token_expires_at, AppVars>>

\* _tenant_access_token = result.get("tenant_access_token")
GetTokenStoreToken(c) ==
    /\ threads[c].pc = "store_token"
    /\ tenant_access_token' = threads[c].token
    /\ threads' = [threads EXCEPT ![c].pc = "store_expiry"]
    /\ UNCHANGED <<token_expires_at, AppVars>>

\* _token_expires_at = current_time + expire_in_seconds
GetTokenStoreExpiry(c) ==
    /\ threads[c].pc = "store_expiry"
    /\ token_expires_at' = threads[c].current_time + threads[c].expire
    /\ threads' = [threads EXCEPT ![c].pc = "return_new"]
    /\ UNCHANGED <<tenant_access_token, AppVars>>

\* return _tenant_access_token (after the exchange)
GetTokenReturnNew(c) ==
    /\ threads[c].pc = "return_new"
    /\ threads' = [threads EXCEPT ![c].returned = tenant_access_token,
                                  ![c].pc = "done"]
    /\ UNCHANGED <<tenant_access_token, token_expires_at, AppVars>>

\* _tenant_access_token = None
GetTokenClearToken(c) ==
    /\ threads[c].pc = "clear_token"
    /\ tenant_access_token' = NoToken
    /\ threads' = [threads EXCEPT ![c].pc = "clear_expiry"]
    /\ UNCHANGED <<token_expires_at, AppVars>>

\* _token_expires_at = 0; return None
GetTokenClearExpiry(c) ==
    /\ threads[c].pc = "clear_expiry"
    /\ token_expires_at' = 0
    /\ threads' = [threads EXCEPT ![c].pc = "done"]
    /\ UNCHANGED <<tenant_access_token, AppVars>>

NextRace ==
    \/ Tick
    \/ \E c \in Callers : GetTokenCall(c)
    \/ \E c \in Callers : GetTokenCheckExpiry(c)
    \/ \E c \in Callers : GetTokenReturnCached(c)
    \/ \E c \in Callers : GetTokenPost(c)
    \/ \E c \in Callers : GetTokenStoreToken(c)
    \/ \E c \in Callers : GetTokenStoreExpiry(c)
    \/ \E c \in Callers : GetTokenReturnNew(c)
    \/ \E c \in Callers : GetTokenClearToken(c)
    \/ \E c \in Callers : GetTokenClearExpiry(c)

InitRace == InitWatching("race") /\ secrets_ok

SpecRace == InitRace /\ [][NextRace]_vars

(***************************************************************************)
(* The codec and the calculator applied on their own to inputs drawn from  *)
(* bounded sets.                                                           *)
(***************************************************************************)
\* forms the handlers accept, with empty and non-empty lists and notes
RoundTripDrafts ==
    {DraftLi, DraftWang,
     [DraftWang EXCEPT !.partners = <<>>, !.customer_notes = <<"-", "1">>],
     [DraftLi EXCEPT !.payment_methods = <<>>, !.deposit_amount = 0,
                     !.child_count = 12, !.child_price = 150]}

\* orders as the handlers build them
WellFormedOrders ==
    {OrderData(d, id, StrftimeNow(t), u) :
        d \in RoundTripDrafts, id \in {1, 2, 3, 10, 12},
        t \in {0, ClockStep}, u \in {<<>>, StrftimeNow(ClockStep)}}

\* rows of the partner editor
PartnerPool ==
    {[id |-> 0, name |-> <<"A">>, settlement |-> 100, collection |-> 50,
      notes |-> <<>>],
     [id |-> 1, name |-> <<>>, settlement |-> 999, collection |-> 999,
      notes |-> <<>>],
     [id |-> 2, name |-> <<" ", " ">>, settlement |-> 7, collection |-> 3,
      notes |-> <<"x">>],
     [id |-> 3, name |-> <<" ", "B">>, settlement |-> 20, collection |-> 0,
      notes |-> <<>>],
     [id |-> 4, name |-> <<"C">>, settlement |-> 0, collection |-> 5,
      notes |-> <<>>],
     [id |-> 5, name |-> <<"D", " ">>, settlement |-> 1, collection |-> 1,
      notes |-> <<>>]}

PartnerLists ==
    UNION {[1..n -> PartnerPool] : n \in 0..MaxPartners}

CalcFrame ==
    UNCHANGED <<orders, order_id_counter, feishu_data_loaded, submit_lock,
                secrets_ok, tenant_access_token, token_expires_at, now, sheet,
                io, last, load_ok, last_created, retired, watch, threads>>

\* an order written as a row by save_data_to_feishu and read back by
\* load_data_from_feishu
ProbeRoundTrip ==
    /\ \E o \in WellFormedOrders :
         probe' = [fn |-> "round_trip", input |-> o,
                   output |-> DecodeRows(EncodeRows(<<o>>))]
    /\ CalcFrame

ProbePartnerTotals ==
    /\ \E ps \in PartnerLists :
         probe' = [fn |-> "partner_totals", input |-> ps,
                   output |-> calculate_partner_totals(ps)]
    /\ CalcFrame

\* orders whose rows are damaged below
DecodeBases ==
    {OrderData(DraftLi, 2, StrftimeNow(0), <<>>),
     OrderData(DraftWang, 1, StrftimeNow(0), StrftimeNow(ClockStep))}

\* a cell typed into the sheet by hand: blank, text that is no number and
\* no JSON, the text of an infinite number, JSON that is no list
ForeignCell(col, kind) ==
    IF col \in JsonCols
    THEN IF kind = "blank" THEN BlankJson
         ELSE IF kind \in {"garbage", "inf"} THEN [kind |-> "invalid", json |-> <<>>]
         ELSE [kind |-> kind, json |-> <<>>]
    ELSE IF kind = "blank" THEN <<>>
    ELSE IF kind = "inf" THEN <<"i", "n", "f">>
    ELSE IF col \in IntCols \/ col \in FloatCols THEN <<"a", "b", "c">>
    ELSE <<"?">>

\* which cells of a row are replaced, and by what
Damages ==
    {[cols |-> cs, kind |-> k] :
        cs \in {{}} \cup {{c} : c \in ColSet} \cup {ColSet},
        k \in {"blank", "garbage"}}
    \cup {[cols |-> {c}, kind |-> "inf"] : c \in IntCols}
    \cup {[cols |-> cs, kind |-> k] :
             cs \in {{c} : c \in JsonCols} \cup {JsonCols},
             k \in {"object", "number", "string"}}

DamagedRow(o, dmg) ==
    [col \in ColSet |->
        IF col \in dmg.cols THEN ForeignCell(col, dmg.kind)
        ELSE EncodeRow(o)[col]]

BlankRow == [col \in ColSet |-> ForeignCell(col, "blank")]

\* the rows of a sheet, one of them damaged, decoded by the row loop of
\* load_data_from_feishu
ProbeDecode ==
    /\ \E o \in DecodeBases, dmg \in Damages, pad \in BOOLEAN :
         LET blanks == IF pad THEN <<BlankRow>> ELSE <<>>
         IN  probe' = [fn |-> "decode",
                       input |-> [order |-> o, dmg |-> dmg, pad |-> pad],
                       output |-> RowLoop(blanks \o <<DamagedRow(o, dmg)>>
                                          \o blanks)]
    /\ CalcFrame

\* what a cell of a JSON column can hold
JsonKinds ==
    {"blank", "invalid", "object", "number", "string", "null"}

\* the cell of a column: of a foreign kind, or the one written for an order
JsonCell(col, kind, o) ==
    IF kind = "list" THEN EncodeRow(o)[col] ELSE [kind |-> kind, json |-> <<>>]

\* the conversion of one cell of payment_methods, lines or partners
ProbeJsonCell ==
    /\ \E col \in JsonCols, kind \in JsonKinds \cup {"list"}, o \in DecodeBases :
         probe' = [fn |-> "json_cell",
                   input |-> [col |-> col, cell |-> JsonCell(col, kind, o)],
                   output |-> StoredJson(JsonCell(col, kind, o))]
    /\ CalcFrame

NextCalc ==
    ProbeRoundTrip \/ ProbePartnerTotals \/ ProbeDecode \/ ProbeJsonCell

InitCalc == InitWatching("calc") /\ secrets_ok

SpecCalc == InitCalc /\ [][NextCalc]_vars

(***************************************************************************)
(* Properties.  A step of an operation leaves the clock alone; the only    *)
(* other step, Tick, leaves the history variables alone.                   *)
(***************************************************************************)
OpStep == now' = now

MutatingOps == {"create", "update", "delete"}

\* C1: when the save of a create fails, orders holds the same records at
\* the same positions as before the submission and order_id_counter has
\* the value it had before the submission.
C1_CreateRollback ==
    [][(OpStep /\ last'.op = "create" /\ last'.result = "persist_failed")
          => (orders' = orders /\ order_id_counter' = order_id_counter)]_vars

\* a create over a non-empty list failed after its clear call was issued
C1_Witness ==
    /\ last.op = "create" /\ last.result = "persist_failed"
    /\ last.input = "valid" /\ io.clear = 1
    /\ orders # <<>>

\* C2: when the save of a delete fails, the removed order is back at the
\* index it had, unchanged, and every other order is where it was.
C2_DeleteRollback ==
    [][(OpStep /\ last'.op = "delete" /\ last'.result = "persist_failed")
          => orders' = orders]_vars

\* a delete from a list of two failed, so the index put back matters
C2_Witness ==
    /\ last.op = "delete" /\ last.result = "persist_failed"
    /\ Len(orders) = 2

\* C3: when the save of an update fails, the order is field for field what
\* it was before the update, at the same index, and so is every other one.
C3_UpdateRollback ==
    [][(OpStep /\ last'.op = "update" /\ last'.result = "persist_failed")
          => orders' = orders]_vars

\* an update with a valid draft failed in a list of two
C3_Witness ==
    /\ last.op = "update" /\ last.result = "persist_failed"
    /\ last.input = "valid"
    /\ Len(orders) = 2

\* C4: once a load has succeeded, after every operation the rows below the
\* header are exactly the encoding of the records of orders.
C4_BackendMatchesOrders == load_ok => sheet.rows = EncodeRows(orders)

\* C5: a mutating operation that follows one whose persistence failed and
\* whose own remote calls all succeed leaves the rows below the header
\* equal to the encoding of orders.
C5_RecoveredByNextPersist ==
    (/\ last.op \in MutatingOps /\ last.result = "ok"
     /\ last.calls_ok /\ last.prev_partial)
        => sheet.rows = EncodeRows(orders)

\* C6: between two loads, the id of each successfully created order is
\* greater than the id of every order successfully created before it.
C6_IdsIncrease ==
    [][(OpStep /\ last'.op = "create" /\ last'.result = "ok")
          => orders'[Len(orders')].id > last_created]_vars

\* a create that got id 3 after a delete had succeeded
C6_Witness ==
    /\ last.op = "create" /\ last.result = "ok"
    /\ last_created = 3 /\ orders # <<>> /\ orders[Len(orders)].id = 3
    /\ retired # {}

\* C7: the id of an order that was persisted and then deleted is not given
\* to any order created later, whatever creates, deletes and loads occur.
C7_DeletedIdNeverReused ==
    [][(OpStep /\ last'.op = "create" /\ last'.result = "ok")
          => orders'[Len(orders')].id \notin retired]_vars

\* C8: a successful create gives the new order the value of
\* order_id_counter and leaves the counter at that id plus one; a create
\* that is rejected or whose save fails does not increase the counter.
C8_CounterAdvance ==
    [][(OpStep /\ last'.op = "create")
          => IF last'.result = "ok"
             THEN /\ Len(orders') = Len(orders) + 1
                  /\ orders'[Len(orders')].id = order_id_counter
                  /\ order_id_counter' = orders'[Len(orders')].id + 1
             ELSE ~(order_id_counter' > order_id_counter)]_vars

\* the second successful create of a session: id 2, counter 3
C8_Witness ==
    /\ last.op = "create" /\ last.result = "ok"
    /\ Len(orders) = 2 /\ orders[2].id = 2 /\ order_id_counter = 3

\* C9: a create or update whose draft has an empty required field or a
\* total the policy rejects, and an operation on an id that is not in
\* orders, leave orders, order_id_counter and the sheet as they were and
\* issue no remote call.
C9_RejectedHasNoEffect ==
    [][(OpStep /\ (\/ (last'.op \in {"create", "update"}
                        /\ last'.input # "valid")
                   \/ last'.op = "select"))
          => (/\ orders' = orders
              /\ order_id_counter' = order_id_counter
              /\ sheet' = sheet
              /\ tenant_access_token' = tenant_access_token
              /\ io' = NoIo)]_vars

\* an update with an empty required field was submitted for a stored order
C9_Witness ==
    /\ last.op = "update" /\ last.input = "missing_field"
    /\ orders # <<>> /\ sheet.rows # <<>>

\* C10: create and update reject the same drafts; a draft whose only
\* defect is a total of zero is rejected by both.
C10_SameValidation ==
    /\ \A d \in Drafts : (CreateErrors(d) = {}) <=> (EditErrors(d) = {})
    /\ \A d \in Drafts : (EditErrors(d) = {}) <=> (DraftKind(d) = "valid")
    /\ last.op \in {"create", "update"}
          => ((last.result = "invalid") <=> (last.input # "valid"))

\* an update whose draft has a total of zero was rejected
C10_Witness ==
    /\ last.op = "update" /\ last.input = "zero_total"
    /\ last.result = "invalid"

\* a step of an operation that asked for the token
TokenCallStep ==
    OpStep /\ last'.result \in {"ok", "persist_failed", "load_failed"}

\* C11: when a token is cached and the clock is more than 300 before its
\* expiry the cached token is used, the cache stays as it is and no
\* exchange is issued; otherwise exactly one exchange is issued.
C11_CacheWindow ==
    [][TokenCallStep
          => IF /\ tenant_access_token # NoToken
                /\ now + SafetyMargin < token_expires_at
             THEN /\ io'.exchange = 0
                  /\ tenant_access_token' = tenant_access_token
                  /\ token_expires_at' = token_expires_at
             ELSE io'.exchange = 1]_vars

\* after the clock advanced, a save found a token cached inside the window
C11_Witness ==
    /\ last.op \in MutatingOps /\ last.result = "ok"
    /\ io.exchange = 0 /\ now = ClockStep

\* C12: when the exchange of an operation has failed, by whatever cause,
\* the cache holds no token and an expiry of 0 afterwards.
C12_FailedExchangeClearsCache ==
    io.exchange_failed = 1
        => (tenant_access_token = NoToken /\ token_expires_at = 0)

\* what the response to caller c puts into the cache: its token with its
\* expiry, or no token with expiry 0 when the response carried an error code
CachePairOf(c) ==
    IF threads[c].outcome = "ok"
    THEN <<threads[c].token, threads[c].current_time + threads[c].expire>>
    ELSE <<NoToken, 0>>

\* C13: when two callers have both performed an exchange and written the
\* cache, the cache holds the token and the expiry of one and the same
\* response.
C13_CacheFromOneResponse ==
    (\A c \in Callers : /\ threads[c].pc = "done"
                         /\ threads[c].outcome \in {"ok", "code"})
        => \E c \in Callers :
              <<tenant_access_token, token_expires_at>> = CachePairOf(c)

\* a step that ran load_data_from_feishu
LoadStep ==
    OpStep /\ last'.op = "load" /\ last'.result \in {"ok", "load_failed"}

\* C14: a load from a sheet whose first row differs from EXPECTED_COLS
\* (columns reordered, renamed, missing or inserted) decodes no record,
\* however many rows follow the first.
C14_HeaderMismatchDecodesNothing ==
    [][(LoadStep /\ sheet.header # EXPECTED_COLS) => orders' = <<>>]_vars

C14_Witness ==
    /\ last.op = "load" /\ last.input = "header"
    /\ sheet.header = HeaderSwapped /\ Len(sheet.rows) = 2

\* C15: after a load that failed (no token, the read timed out, could not
\* be sent or was answered with an error code, or the first row did not
\* match), orders is empty, the load is marked as attempted and the create
\* form can be submitted.
C15_FailedLoadLeavesAppRunning ==
    (last.op = "load" /\ last.result = "load_failed")
        => /\ orders = <<>>
           /\ feishu_data_loaded
           /\ ENABLED SaveNewOrder

C15_Witness ==
    /\ last.op = "load" /\ last.result = "load_failed"
    /\ last.input = "timeout" /\ sheet.header = EXPECTED_COLS
    /\ sheet.rows # <<>>

\* C16: after a load, order_id_counter is 1 when no order was loaded and
\* otherwise one more than the greatest id among the loaded orders.
C16_CounterAfterLoad ==
    [][LoadStep
         => IF orders' = <<>> THEN order_id_counter' = 1
            ELSE \E i \in 1..Len(orders') :
                    /\ order_id_counter' = orders'[i].id + 1
                    /\ \A j \in 1..Len(orders') :
                          orders'[j].id <= orders'[i].id]_vars

C16_Witness ==
    /\ last.op = "load" /\ last.result = "ok"
    /\ Len(orders) = 1 /\ order_id_counter = 3

\* C17: whenever a create, update or delete issued the clear call, whatever
\* became of it, the write call was issued after it.
C17_WriteFollowsClear ==
    (last.op \in MutatingOps /\ io.clear = 1) => io.write = 1

\* C18: after a create, update or delete whose save reported success, the
\* rows below the first row of the sheet are exactly the rows written.
C18_SheetHoldsWrittenRows ==
    (last.op \in MutatingOps /\ last.result = "ok")
        => sheet.rows = ValuesToWrite(orders)

\* C19: a create, update or delete whose token exchange fails issues no
\* clear and no write, leaves the sheet as it was and ends with orders as
\* they were before it.
C19_NoTokenNoSave ==
    [][(OpStep /\ last'.op \in MutatingOps /\ io'.exchange_failed = 1)
          => /\ io'.clear = 0
             /\ io'.write = 0
             /\ sheet' = sheet
             /\ orders' = orders
             /\ last'.result = "persist_failed"]_vars

C19_Witness ==
    /\ last.op = "delete" /\ io.exchange_failed = 1
    /\ orders # <<>> /\ sheet.rows # <<>>

\* C20: no operation issues a remote call twice: a load issues at most one
\* token exchange and one read and nothing else; a create, update or delete
\* issues at most one token exchange, one clear and one write and no read,
\* whatever the outcomes of the calls.
C20_NoRetry ==
    /\ io.exchange <= 1 /\ io.read <= 1 /\ io.clear <= 1 /\ io.write <= 1
    /\ last.op = "load" => (io.clear = 0 /\ io.write = 0)
    /\ last.op \in MutatingOps => io.read = 0

C20_Witness ==
    /\ last.op \in MutatingOps /\ last.result = "persist_failed"
    /\ io.exchange = 1 /\ io.clear = 1 /\ io.write = 1

\* C21: every order in orders has an id greater than 0 and no two orders in
\* orders have the same id, whatever loads, creates, updates and deletes
\* came before.
C21_IdsPositiveUnique ==
    \A i \in 1..Len(orders) :
        /\ orders[i].id > 0
        /\ \A j \in 1..Len(orders) : orders[i].id = orders[j].id => i = j

\* C22: an order with well-formed fields, written as a row under
\* EXPECTED_COLS and decoded again, comes back equal to itself.
C22_RoundTrip ==
    probe.fn = "round_trip" => probe.output = <<probe.input>>

C22_Witness ==
    /\ probe.fn = "round_trip"
    /\ probe.input.partners # <<>> /\ probe.input.profit < 0
    /\ probe.input.id = 12 /\ probe.input.updated_at # <<>>

\* the positions of the partners whose name has a character other than
\* a blank
NamedPartners(ps) ==
    {i \in 1..Len(ps) : \E k \in 1..Len(ps[i].name) : ps[i].name[k] # " "}

RECURSIVE SumOver(_, _)
SumOver(f, S) ==
    IF S = {} THEN 0
    ELSE LET i == CHOOSE x \in S : TRUE IN f[i] + SumOver(f, S \ {i})

\* C25: calculate_partner_totals returns the sum of settlement and the sum
\* of collection over the partners whose name is not empty after trimming;
\* the other partners add nothing, whatever their amounts.
C25_PartnerTotals ==
    probe.fn = "partner_totals"
        => LET ps == probe.input IN
           probe.output =
               <<SumOver([i \in 1..Len(ps) |-> ps[i].settlement],
                         NamedPartners(ps)),
                 SumOver([i \in 1..Len(ps) |-> ps[i].collection],
                         NamedPartners(ps))>>

C25_Witness ==
    /\ probe.fn = "partner_totals"
    /\ Len(probe.input) = 2
    /\ probe.input[1].name = <<"A">> /\ probe.input[2].name = <<>>
    /\ probe.input[2].settlement = 999
    /\ probe.output = <<100, 50>>

\* C23: in a session that started on an empty sheet and in which every
\* save and load has succeeded, a load returns the orders the session
\* holds: the same orders with the same field values in the same sequence.
C23_ReloadReproducesOrders ==
    [][(LoadStep /\ last'.result = "ok" /\ last.all_ok)
          => orders' = orders]_vars

\* the positions of new_list holding an order that old_list does not hold
\* at the same position
PlacedAt(old_list, new_list) ==
    {i \in 1..Len(new_list) : i > Len(old_list) \/ new_list[i] # old_list[i]}

AllPartners(o) == 1..Len(o.partners)

DerivedFieldsHold(o) ==
    /\ o.total_revenue = o.total_payment_amount
    /\ o.total_cost =
           SumOver([i \in AllPartners(o) |-> o.partners[i].settlement],
                   AllPartners(o))
    /\ o.total_collection =
           SumOver([i \in AllPartners(o) |-> o.partners[i].collection],
                   AllPartners(o))
    /\ o.profit = o.total_payment_amount - o.total_cost
    /\ o.total_pax_price =
           o.adult_count * o.adult_price + o.child_count * o.child_price

\* a create or an update that was saved
PlacingStep ==
    OpStep /\ last'.op \in {"create", "update"} /\ last'.result = "ok"

\* C24: the order a successful create or update places in orders has
\* total_revenue equal to total_payment_amount, total_cost and
\* total_collection equal to the sums of settlement and of collection over
\* its partners, profit equal to total_payment_amount less total_cost, and
\* total_pax_price equal to adult_count * adult_price + child_count *
\* child_price.
C24_DerivedFields ==
    [][PlacingStep
          => \A i \in PlacedAt(orders, orders') :
                DerivedFieldsHold(orders'[i])]_vars

C24_Witness ==
    /\ last.op = "update" /\ last.result = "ok"
    /\ \E i \in 1..Len(orders) :
          /\ orders[i].child_count > 0 /\ orders[i].profit < 0
          /\ orders[i].partners # <<>>

\* a stored partner: its name is not blank and it has no editor id
PartnerIsClean(p) ==
    /\ \E k \in 1..Len(p.name) : p.name[k] # " "
    /\ "id" \notin DOMAIN p

PartnersAreClean(ps) == \A k \in 1..Len(ps) : PartnerIsClean(ps[k])

\* C26: the order a successful create or update places in orders, and the
\* rows that operation writes to the sheet, hold no partner with an empty or
\* blank name and no partner carrying the id the partner editor gave it.
C26_StoredPartnersClean ==
    [][PlacingStep
          => /\ \A i \in PlacedAt(orders, orders') :
                   PartnersAreClean(orders'[i].partners)
             /\ \A k \in 1..Len(orders') :
                   PartnersAreClean(sheet'.rows[k].partners.json)]_vars

C26_Witness ==
    /\ last.op = "create" /\ last.result = "ok"
    /\ Len(orders) = 1 /\ Len(orders[1].partners) = 1
    /\ Len(sheet.rows) = 1 /\ Len(sheet.rows[1].partners.json) = 1

\* an edit form was submitted
UpdateStep == OpStep /\ last'.op = "update"

\* C27: created_at is set by create and every update, saved or not, leaves
\* it as it was; updated_at is empty after create, is set to the time of
\* the update by every update that is saved, and keeps its value when the
\* update is not saved.
C27_Timestamps ==
    [][/\ (OpStep /\ last'.op = "create" /\ last'.result = "ok")
           => /\ orders'[Len(orders')].created_at = StrftimeNow(now)
              /\ orders'[Len(orders')].updated_at = <<>>
       /\ UpdateStep
           => /\ Len(orders') = Len(orders)
              /\ \A i \in 1..Len(orders) :
                    orders'[i].created_at = orders[i].created_at
       /\ (UpdateStep /\ last'.result = "ok")
           => /\ \E i \in 1..Len(orders) :
                    orders'[i].updated_at = StrftimeNow(now)
              /\ \A i \in 1..Len(orders) :
                    \/ orders'[i] = orders[i]
                    \/ orders'[i].updated_at = StrftimeNow(now)
       /\ (UpdateStep /\ last'.result # "ok")
           => \A i \in 1..Len(orders) :
                 orders'[i].updated_at = orders[i].updated_at]_vars

C27_Witness ==
    /\ last.op = "update" /\ last.result = "ok"
    /\ \E i \in 1..Len(orders) :
          /\ orders[i].created_at = StrftimeNow(0)
          /\ orders[i].updated_at = StrftimeNow(ClockStep)

\* C28: after a load, every numeric field (id, counts, amounts, prices and
\* derived totals) of every order in orders is zero or more.
C28_LoadedNumbersNonNegative ==
    last.op = "load"
        => \A i \in 1..Len(orders) :
              \A col \in IntCols \cup FloatCols : orders[i][col] >= 0

\* C29: while a required secret is absent, no load, create, update or
\* delete issues a remote call (the sheet and the token cache stay as they
\* are), and a create, update or delete leaves orders as they were.
C29_NoConfigNoCalls ==
    [][(OpStep /\ ~secrets_ok)
          => /\ io' = NoIo
             /\ sheet' = sheet
             /\ tenant_access_token' = tenant_access_token
             /\ token_expires_at' = token_expires_at
             /\ last'.op \in MutatingOps => orders' = orders]_vars

C29_Witness ==
    /\ ~secrets_ok
    /\ last.op = "create" /\ last.result = "no_config"
    /\ last.input = "valid" /\ orders = <<>>

\* the first position of list holding id
FoundAt(list, id) ==
    CHOOSE i \in 1..Len(list) :
        list[i].id = id /\ \A j \in 1..(i - 1) : list[j].id # id

\* C30: a saved update replaces the order at the position where the
\* selected id was found and nothing else: orders keeps its length, the
\* order at that position keeps its id and every other order stays at its
\* position.  A saved delete removes the order at the position where the
\* selected id was found and keeps the others in their order.
C30_UpdateDeleteFrame ==
    [][/\ (UpdateStep /\ last'.result = "ok")
           => LET idx == FoundAt(orders, last'.sel) IN
              /\ Len(orders') = Len(orders)
              /\ orders'[idx].id = last'.sel
              /\ \A j \in 1..Len(orders) :
                    j # idx => orders'[j] = orders[j]
       /\ (OpStep /\ last'.op = "delete" /\ last'.result = "ok")
           => LET idx == FoundAt(orders, last'.sel) IN
              /\ Len(orders') = Len(orders) - 1
              /\ \A j \in 1..Len(orders') :
                    orders'[j] = IF j < idx THEN orders[j] ELSE orders[j + 1]
      ]_vars

C30_Witness ==
    /\ last.op = "delete" /\ last.result = "ok" /\ last.sel = 1
    /\ Len(orders) = 1 /\ orders[1].id = 2

\* the value the column type gives a cell that is blank or fails to parse
ZeroOf(col) ==
    IF col \in IntCols \/ col \in FloatCols THEN 0 ELSE <<>>

\* the cell is blank, or its conversion fails
CellFails(col, dmg) ==
    \/ dmg.kind = "blank"
    \/ col \in IntCols \cup FloatCols \cup JsonCols

\* C31: during load a row whose every cell is blank or null produces no
\* order, and a cell that fails to parse is replaced by the zero or empty
\* value of its column type while every other cell of the row is decoded and
\* the row is kept.
C31_BlankRowsAndBadCells ==
    probe.fn = "decode" =>
        LET o   == probe.input.order
            dmg == probe.input.dmg
            out == probe.output.orders
        IN  IF dmg.cols = ColSet /\ dmg.kind = "blank"
            THEN out = <<>>
            ELSE /\ Len(out) = 1
                 /\ \A col \in ColSet :
                      out[1][col] =
                          IF col \notin dmg.cols THEN o[col]
                          ELSE IF CellFails(col, dmg) THEN ZeroOf(col)
                          ELSE ForeignCell(col, dmg.kind)

\* C32: after a load the fields payment_methods, lines and partners of an
\* order are lists, possibly empty, whatever the cell holds: a blank cell,
\* invalid JSON, and valid JSON that is an object, a number, a string or
\* null give the empty list, and the JSON text of a list gives that list.
C32_JsonFieldsAreLists ==
    probe.fn = "json_cell" =>
        /\ probe.output.isList
        /\ probe.output.v =
               IF probe.input.cell.kind = "list" THEN probe.input.cell.json
               ELSE <<>>

C32_Witness ==
    /\ probe.fn = "json_cell"
    /\ probe.input.cell.kind = "object"
    /\ probe.output = [isList |-> TRUE, v |-> <<>>]

\* a create, update or delete that went on to the save
SaveStep ==
    OpStep /\ last'.op \in MutatingOps
           /\ last'.result \in {"ok", "persist_failed"}

Outcomes ==
    {"ok", "invalid", "no_config", "persist_failed", "load_failed",
     "not_found"}

\* C33: a timeout of the clear call or of the write call of a save has the
\* effect of any other transport failure of that call: the save reports
\* failure, the operation leaves orders as they were before it, and the
\* sheet is as the calls before the failed one left it; and every load,
\* create, update and delete ends in one of the outcomes of the program.
C33_TimeoutIsTransportFailure ==
    [][/\ (/\ SaveStep
           /\ \/ last'.input.clear \in TransportFailures
              \/ last'.input.write \in TransportFailures)
          => /\ last'.result = "persist_failed"
             /\ orders' = orders
             /\ sheet' \in {sheet, ClearRange(sheet)}
             /\ last'.input.clear \in TransportFailures => sheet' = sheet
       /\ OpStep => last'.result \in Outcomes]_vars

C33_Witness ==
    /\ last.op \in MutatingOps
    /\ last.result = "persist_failed"
    /\ \/ last.input.clear = "timeout"
       \/ last.input.write = "timeout"
    /\ orders # <<>>

\* C34: when the load failed (timeout, no token, header mismatch) while the
\* sheet holds order rows, a create that follows and is saved removes none
\* of them: every row the sheet held before the create is a row of the
\* sheet after it.
C34_FailedLoadKeepsBackendRows ==
    [][(/\ last.op = "load" /\ last.result = "load_failed"
        /\ sheet.rows # <<>>
        /\ OpStep /\ last'.op = "create" /\ last'.result = "ok")
       => \A i \in 1..Len(sheet.rows) :
            \E j \in 1..Len(sheet'.rows) : sheet'.rows[j] = sheet.rows[i]]_vars

\* the ids of the list are in strictly ascending order
Ascending(list) ==
    \A i \in 1..(Len(list) - 1) : list[i].id < list[i + 1].id

\* the id cells of the rows, as numbers, are in strictly ascending order
AscendingRows(rows) ==
    \A i \in 1..(Len(rows) - 1) :
        DecodeCell("id", rows[i].id) < DecodeCell("id", rows[i + 1].id)

\* C35: orders start empty; a load of rows in ascending id order gives
\* orders in strictly ascending id order; and a create, update or delete,
\* saved or rolled back, of orders in strictly ascending id order leaves
\* them so, so that sorting them by id as the save does changes nothing.
C35_OrdersStayAscending ==
    [][/\ (OpStep /\ last'.op = "load" /\ AscendingRows(sheet.rows))
          => Ascending(orders')
       /\ (OpStep /\ last'.op \in MutatingOps /\ Ascending(orders))
          => /\ Ascending(orders')
             /\ SortedById(orders') = orders']_vars

C35_Witness ==
    /\ last.op = "delete" /\ last.result = "persist_failed"
    /\ Len(orders) = 2
    /\ Ascending(orders)

C37_ReadOncePerLoad ==
    [][OpStep =>
        /\ feishu_data_loaded
              => (feishu_data_loaded' /\ OrdersAtRunStart = orders)
        /\ last'.op # "load" => (feishu_data_loaded /\ io'.read = 0)
        /\ last'.op = "select"
              => (orders' = orders /\ order_id_counter' = order_id_counter)
        /\ last'.op = "load"
              => /\ feishu_data_loaded'
                 /\ io'.read <= 1
                 /\ last'.result = "ok" => io'.read = 1
                 /\ last'.result = "no_config" => io'.read = 0]_vars

C37_Witness ==
    /\ last.op = "load" /\ last.result = "ok"
    /\ io.read = 1
    /\ orders # <<>>
    /\ feishu_data_loaded

\* the ids of the list, position by position
IdSeq(list) == [i \in 1..Len(list) |-> list[i].id]

\* C38: save_data_to_feishu leaves the list it is given as it was, whether
\* it succeeds or fails: after a failed save the rollback gives back orders
\* exactly as they were before the operation, and after a successful save
\* orders is the list the handler built, in the handler's order (the orders
\* of before with one appended, one replaced in place, or one removed).
C38_SaveLeavesListAlone ==
    [][SaveStep =>
        IF last'.result = "persist_failed" THEN orders' = orders
        ELSE IF last'.op = "create"
        THEN /\ Len(orders') = Len(orders) + 1
             /\ SubSeq(orders', 1, Len(orders)) = orders
        ELSE IF last'.op = "update"
        THEN /\ IdSeq(orders') = IdSeq(orders)
             /\ \E i \in 1..Len(orders) :
                  \A j \in (1..Len(orders)) \ {i} : orders'[j] = orders[j]
        ELSE \E i \in 1..Len(orders) : orders' = RemoveAt(orders, i)]_vars

C38_Witness ==
    /\ last.op = "update" /\ last.result = "persist_failed"
    /\ Len(orders) = 2
    /\ orders[1].id > orders[2].id

====
